---- MODULE Spec2Model ----
(***************************************************************************)
(* A model of the Lox tree-walking interpreter: the LoxTransformer rules   *)
(* (lox/transformer.py) that build the AST, and the eval methods of the    *)
(* AST nodes (lox/ast.py) that Program.eval drives, one top-level          *)
(* statement per step.                                                     *)
(***************************************************************************)
EXTENDS Integers, Sequences, FiniteSets, TLC

VARIABLES
    tree,    \* the parse tree handed to the transformer
    phase,   \* "parse", "eval", "done" (Program.eval returned), "aborted" (an exception left it)
    stmts,   \* Program.stmts, the list built by LoxTransformer.program
    pc,      \* position of the for loop of Program.eval: index of the next statement
    ctx,     \* the Ctx given to Program.eval: a scope chain, innermost scope first
    ctx0,    \* the scope chain as it was when Program.eval was called (history)
    heap,    \* host objects that carry an attribute dictionary: instances and functions
    out,     \* the lines written to standard output by print()
    fault,   \* "none", or the class of the exception that left Program.eval
    trace    \* history of evaluation events, in the order they happened

vars == <<tree, phase, stmts, pc, ctx, ctx0, heap, out, fault, trace>>

-----------------------------------------------------------------------------
(* Bounds of the model.                                                    *)

MaxStmts == 2       \* longest program built from the statement pool
MaxNum == 2         \* largest NUMBER token
MaxArgs == 2        \* longest argument list of the call family
MaxSuffixes == 3    \* longest suffix chain of the obj family

-----------------------------------------------------------------------------
(* Runtime values.  Every value is a record [t, v, s]: t the host type,    *)
(* v a number (the float of a number, the address of an object, 0/1 of a   *)
(* boolean), s a string (the text of a str, the name of a method).         *)

Num(n) == [t |-> "num", v |-> n, s |-> ""]
Str(x) == [t |-> "str", v |-> 0, s |-> x]
Bool(b) == [t |-> "bool", v |-> IF b THEN 1 ELSE 0, s |-> ""]
Nil == [t |-> "nil", v |-> 0, s |-> ""]
Inst(a) == [t |-> "inst", v |-> a, s |-> ""]
Fn(a) == [t |-> "fn", v |-> a, s |-> ""]
BoundMethod(a, name) == [t |-> "method", v |-> a, s |-> name]
StrUpper(x) == [t |-> "str.upper", v |-> 0, s |-> x]

-----------------------------------------------------------------------------
(* AST nodes (the dataclasses of lox/ast.py).                              *)

Program(ss) == [k |-> "Program", stmts |-> ss]
BinOp(left, right, op) == [k |-> "BinOp", left |-> left, right |-> right, op |-> op]
Var(name) == [k |-> "Var", name |-> name]
Literal(value) == [k |-> "Literal", value |-> value]
Call(func, params) == [k |-> "Call", func |-> func, params |-> params]
Assign(obj, attr, value) == [k |-> "Assign", obj |-> obj, attr |-> attr, value |-> value]
Getattr(obj, attr) == [k |-> "Getattr", obj |-> obj, attr |-> attr]
PrintStmt(expr) == [k |-> "Print", expr |-> expr]
\* Python's None, where a rule method returns nothing or an argument is absent
NoneNode == [k |-> "None"]
\* a Python list of nodes, as LoxTransformer.params builds it
PyList(items) == [k |-> "list", items |-> items]

-----------------------------------------------------------------------------
(* The parse tree.  A node is [rule, tok, ch]: a rule application has the  *)
(* rule's name and its children, a terminal has its token text.            *)

Rule(r, ch) == [rule |-> r, tok |-> "", ch |-> ch]
Token(r, text) == [rule |-> r, tok |-> text, ch |-> <<>>]

\* float(token) on the NUMBER tokens of the model, the decimal numerals 0..MaxNum
FloatOf(token) == CHOOSE n \in 0..MaxNum : ToString(n) = token

StrTexts == {"hi", "yo"}
Quoted(x) == "\"" \o x \o "\""
\* str(token)[1:-1]: the token text without its first and last character
StripQuotes(token) == CHOOSE x \in StrTexts : Quoted(x) = token

-----------------------------------------------------------------------------
(* LoxTransformer: one method per grammar rule or terminal.                *)

program(ss) == Program(ss)

\* the method op_handler(op) returns
op_handler(op, left, right) == BinOp(left, right, op)

BinOpRules == {"mul", "div", "sub", "add", "gt", "lt", "ge", "le", "eq", "ne"}
\* the runtime function each binary rule is bound to
RuntimeOp(r) == IF r = "div" THEN "truediv" ELSE r

assignment(left, right) ==
    IF right = NoneNode THEN left
    ELSE IF left.k = "Getattr" THEN Assign(left.obj, left.attr, right)
    ELSE NoneNode

\* faulty variant: the suffixes are folded from the last one, which ends innermost
RECURSIVE objReversed(_, _)
objReversed(o, suffixes) ==
    IF suffixes = <<>> THEN o
    ELSE LET suffix == suffixes[Len(suffixes)]
             next == IF suffix.k = "Var" THEN Getattr(o, suffix.name)
                     ELSE IF suffix.k = "list" THEN Call(o, suffix)
                     ELSE o
         IN objReversed(next, SubSeq(suffixes, 1, Len(suffixes) - 1))

RECURSIVE obj(_, _)
obj(o, suffixes) ==
    IF suffixes = <<>> THEN o
    ELSE LET suffix == Head(suffixes)
             next == IF suffix.k = "Var" THEN Getattr(o, suffix.name)
                     ELSE IF suffix.k = "list" THEN Call(o, suffix)
                     ELSE o
         IN obj(next, Tail(suffixes))

params(args) == PyList(args)

print_cmd(expr) == PrintStmt(expr)

VAR(token) == Var(token)
NUMBER(token) == Literal(Num(FloatOf(token)))
STRING_(token) == Literal(Str(StripQuotes(token)))
NIL(token) == Literal(Nil)
BOOL(token) == Literal(Bool(token = "true"))

\* Transformer.transform: bottom-up, each node replaced by what its method returns
RECURSIVE Transform(_)
Transform(n) ==
    LET kids == [i \in 1..Len(n.ch) |-> Transform(n.ch[i])]
    IN CASE n.rule = "program" -> program(kids)
         [] n.rule \in BinOpRules -> op_handler(RuntimeOp(n.rule), kids[1], kids[2])
         [] n.rule = "assignment" ->
                assignment(kids[1], IF Len(kids) > 1 THEN kids[2] ELSE NoneNode)
         [] n.rule = "obj" -> obj(kids[1], Tail(kids))
         [] n.rule = "params" -> params(kids)
         [] n.rule = "print_cmd" -> print_cmd(kids[1])
         [] n.rule = "VAR" -> VAR(n.tok)
         [] n.rule = "NUMBER" -> NUMBER(n.tok)
         [] n.rule = "STRING" -> STRING_(n.tok)
         [] n.rule = "NIL" -> NIL(n.tok)
         [] n.rule = "BOOL" -> BOOL(n.tok)

-----------------------------------------------------------------------------
(* The host objects of a run.  Addresses 1..NumObjects name the objects    *)
(* that carry an attribute dictionary.                                     *)

AttrNames == {"a", "b", "greet", "upper"}

NoFields == [n \in {} |-> Nil]

\* the object at each address when the run starts
InitialHeap ==
    [a \in 1..4 |->
        CASE a = 1 -> [cls |-> "B", fields |-> [n \in {"a"} |-> Num(1)]]
          [] a = 2 -> [cls |-> "function", fields |-> NoFields]
          [] a = 3 -> [cls |-> "function", fields |-> NoFields]
          [] a = 4 -> [cls |-> "function", fields |-> NoFields]]

\* host functions bound in the global scope: f = lambda a: a,
\* g = lambda a, b: a, h = lambda: nil
FnArity(a) == CASE a = 2 -> 1 [] a = 3 -> 2 [] a = 4 -> 0
FnResult(a, args) == IF a = 4 THEN Nil ELSE args[1]

\* the scope chains a run may be given, innermost scope first
GlobalScope ==
    [n \in {"x", "o", "f", "g", "h"} |->
        CASE n = "x" -> Num(2)
          [] n = "o" -> Inst(1)
          [] n = "f" -> Fn(2)
          [] n = "g" -> Fn(3)
          [] n = "h" -> Fn(4)]
InitialCtxs == { <<GlobalScope>>, <<[n \in {"x"} |-> Num(1)], GlobalScope>> }

\* Ctx.__getitem__: the binding of the nearest scope that defines the name
RECURSIVE Lookup(_, _)
Lookup(chain, name) ==
    IF chain = <<>> THEN [found |-> FALSE, value |-> Nil]
    ELSE IF name \in DOMAIN Head(chain) THEN [found |-> TRUE, value |-> Head(chain)[name]]
    ELSE Lookup(Tail(chain), name)

\* classes: B < A, A defines greet()
Superclass(c) == IF c = "B" THEN "A" ELSE "none"
OwnMethods(c) == IF c = "A" THEN {"greet"} ELSE {}
RECURSIVE FindMethod(_, _)
FindMethod(c, name) ==
    IF c = "none" THEN FALSE
    ELSE IF name \in OwnMethods(c) THEN TRUE
    ELSE FindMethod(Superclass(c), name)
MethodArity(name) == 0
MethodResult(name) == Str("A")

\* str.upper on the strings of the model
UpperOf(x) == CASE x = "hi" -> "HI" [] x = "yo" -> "YO" [] OTHER -> x

\* str(value), as print() applies it; the text of an object that has no
\* literal form stands for its host representation
PyStr(val) ==
    CASE val.t = "num" -> ToString(val.v) \o ".0"
      [] val.t = "str" -> val.s
      [] val.t = "bool" -> IF val.v = 1 THEN "True" ELSE "False"
      [] val.t = "nil" -> "None"
      [] OTHER -> "<" \o val.t \o ">"

\* the functions of lox.runtime the binary rules are bound to, for the
\* arithmetic and ordering operators the programs of the model use
ApplyOp(op, l, r) ==
    IF l.t # "num" \/ r.t # "num" THEN [fault |-> "TypeError", val |-> Nil]
    ELSE [fault |-> "none",
          val |-> CASE op = "mul" -> Num(l.v * r.v)
                    [] op = "sub" -> Num(l.v - r.v)
                    [] op = "add" -> Num(l.v + r.v)
                    [] op = "gt" -> Bool(l.v > r.v)
                    [] op = "lt" -> Bool(l.v < r.v)
                    [] op = "ge" -> Bool(l.v >= r.v)
                    [] op = "le" -> Bool(l.v <= r.v)]

\* getattr(value, attr): [fault, val]
PyGetattr(val, attr, h) ==
    CASE val.t \in {"inst", "fn"} /\ attr \in DOMAIN h[val.v].fields ->
            [fault |-> "none", val |-> h[val.v].fields[attr]]
      [] val.t = "inst" /\ attr \notin DOMAIN h[val.v].fields
                        /\ FindMethod(h[val.v].cls, attr) ->
            [fault |-> "none", val |-> BoundMethod(val.v, attr)]
      [] val.t = "str" /\ attr = "upper" ->
            [fault |-> "none", val |-> StrUpper(val.s)]
      [] OTHER -> [fault |-> "AttributeError", val |-> Nil]

\* setattr(target, attr, val): [fault, heap]
PySetattr(target, attr, val, h) ==
    IF target.t \in {"inst", "fn"}
    THEN [fault |-> "none",
          heap |-> [h EXCEPT ![target.v].fields =
                      [n \in DOMAIN @ \cup {attr} |-> IF n = attr THEN val ELSE @[n]]]]
    ELSE [fault |-> "AttributeError", heap |-> h]

-----------------------------------------------------------------------------
(* Evaluation.  An evaluation state is [ctx, heap, out, trace, fault, val]:*)
(* fault is "none" or the class of the exception being propagated, val the *)
(* value just returned.  Every node is evaluated at a path: the index of   *)
(* its top-level statement followed by the child positions down to it.     *)

Ev(ev, path, info, vals) == [ev |-> ev, path |-> path, info |-> info, vals |-> vals]
Log(st, e) == [st EXCEPT !.trace = Append(@, e)]
Raise(st, path, exc) == [Log(st, Ev("raise", path, exc, <<>>)) EXCEPT !.fault = exc, !.val = Nil]
Return(st, path, v) == [Log(st, Ev("return", path, "", <<v>>)) EXCEPT !.val = v]

\* func(*args): the host's call protocol
Invoke(fv, args, path, st) ==
    LET arity == CASE fv.t = "fn" -> FnArity(fv.v)
                   [] fv.t = "method" -> MethodArity(fv.s)
                   [] fv.t = "str.upper" -> 0
                   [] OTHER -> -1
        result == CASE fv.t = "fn" -> FnResult(fv.v, args)
                    [] fv.t = "method" -> MethodResult(fv.s)
                    [] fv.t = "str.upper" -> Str(UpperOf(fv.s))
    IN IF arity # Len(args) THEN Raise(st, path, "TypeError")
       ELSE Return(Log(st, Ev("body", path, "", args)), path, result)

RECURSIVE Eval(_, _, _)

LiteralEval(node, path, st) == Return(st, path, node.value)

\* faulty variant: a read of an unbound name binds it to nil and returns nil
VarEvalAutoDefine(node, path, st) ==
    LET r == Lookup(st.ctx, node.name)
        inner == Head(st.ctx)
        bound == [n \in DOMAIN inner \cup {node.name} |->
                     IF n = node.name THEN Nil ELSE inner[n]]
    IN IF r.found THEN Return(st, path, r.value)
       ELSE Return([st EXCEPT !.ctx = <<bound>> \o Tail(st.ctx)], path, Nil)

VarEval(node, path, st) ==
    LET r == Lookup(st.ctx, node.name)
    IN IF r.found THEN Return(st, path, r.value)
       ELSE Raise(st, path, "NameError")

\* faulty variant: the operator is applied to (right value, left value)
BinOpEvalSwapped(node, path, st) ==
    LET l == Eval(node.left, path \o <<1>>, st)
        r == Eval(node.right, path \o <<2>>, l)
        a == Log(r, Ev("apply", path, node.op, <<r.val, l.val>>))
        res == ApplyOp(node.op, r.val, l.val)
    IN IF l.fault # "none" THEN l
       ELSE IF r.fault # "none" THEN r
       ELSE IF res.fault # "none" THEN Raise(a, path, res.fault)
       ELSE Return(a, path, res.val)

BinOpEval(node, path, st) ==
    LET l == Eval(node.left, path \o <<1>>, st)
        r == Eval(node.right, path \o <<2>>, l)
        a == Log(r, Ev("apply", path, node.op, <<l.val, r.val>>))
        res == ApplyOp(node.op, l.val, r.val)
    IN IF l.fault # "none" THEN l
       ELSE IF r.fault # "none" THEN r
       ELSE IF res.fault # "none" THEN Raise(a, path, res.fault)
       ELSE Return(a, path, res.val)

\* [p.eval(ctx) for p in self.params], from the i-th parameter on
RECURSIVE EvalParams(_, _, _, _, _)
EvalParams(ps, i, path, st, acc) ==
    IF i > Len(ps) THEN [st |-> st, vals |-> acc]
    ELSE LET e == Eval(ps[i], path \o <<1 + i>>, st)
         IN IF e.fault # "none" THEN [st |-> e, vals |-> acc]
            ELSE EvalParams(ps, i + 1, path, e, Append(acc, e.val))

\* faulty variant: the arguments are evaluated before the callee
CallEvalArgsFirst(node, path, st) ==
    LET evaluated == EvalParams(node.params.items, 1, path, st, <<>>)
        func == Eval(node.func, path \o <<1>>, evaluated.st)
        called == Log(func, Ev("invoke", path, "", <<func.val>> \o evaluated.vals))
    IN IF evaluated.st.fault # "none" THEN evaluated.st
       ELSE IF func.fault # "none" THEN func
       ELSE Invoke(func.val, evaluated.vals, path, called)

\* faulty variant: a call with too few arguments binds the missing parameters to nil
CallEvalPadNil(node, path, st) ==
    LET func == Eval(node.func, path \o <<1>>, st)
        evaluated == EvalParams(node.params.items, 1, path, func, <<>>)
        called == Log(evaluated.st, Ev("invoke", path, "", <<func.val>> \o evaluated.vals))
        wanted == IF func.val.t = "fn" THEN FnArity(func.val.v) ELSE Len(evaluated.vals)
        padded == [i \in 1..wanted |->
                      IF i <= Len(evaluated.vals) THEN evaluated.vals[i] ELSE Nil]
    IN IF func.fault # "none" THEN func
       ELSE IF evaluated.st.fault # "none" THEN evaluated.st
       ELSE IF Len(evaluated.vals) < wanted THEN Invoke(func.val, padded, path, called)
       ELSE Invoke(func.val, evaluated.vals, path, called)

CallEval(node, path, st) ==
    LET func == Eval(node.func, path \o <<1>>, st)
        evaluated == EvalParams(node.params.items, 1, path, func, <<>>)
        called == Log(evaluated.st, Ev("invoke", path, "", <<func.val>> \o evaluated.vals))
    IN IF func.fault # "none" THEN func
       ELSE IF evaluated.st.fault # "none" THEN evaluated.st
       ELSE Invoke(func.val, evaluated.vals, path, called)

AssignEval(node, path, st) ==
    LET val == Eval(node.value, path \o <<2>>, st)
        target == Eval(node.obj, path \o <<1>>, val)
        w == PySetattr(target.val, node.attr, val.val, target.heap)
        set == [Log(target, Ev("setattr", path, node.attr, <<target.val, val.val>>))
                   EXCEPT !.heap = w.heap]
    IN IF val.fault # "none" THEN val
       ELSE IF target.fault # "none" THEN target
       ELSE IF w.fault # "none" THEN Raise(target, path, w.fault)
       ELSE Return(set, path, val.val)

GetattrEval(node, path, st) ==
    LET obj_value == Eval(node.obj, path \o <<1>>, st)
        r == PyGetattr(obj_value.val, node.attr, obj_value.heap)
    IN IF obj_value.fault # "none" THEN obj_value
       ELSE IF r.fault # "none" THEN Raise(obj_value, path, r.fault)
       ELSE Return(obj_value, path, r.val)

PrintEval(node, path, st) ==
    LET value == Eval(node.expr, path \o <<1>>, st)
        written == [Log(value, Ev("print", path, PyStr(value.val), <<value.val>>))
                       EXCEPT !.out = Append(@, PyStr(value.val))]
    IN IF value.fault # "none" THEN value
       ELSE Return(written, path, Nil)

\* node.eval(ctx): dispatch on the class of the node; None has no eval
Eval(node, path, st) ==
    LET s == Log(st, Ev("enter", path, node.k, <<>>))
    IN CASE node.k = "Literal" -> LiteralEval(node, path, s)
         [] node.k = "Var" -> VarEval(node, path, s)
         [] node.k = "BinOp" -> BinOpEval(node, path, s)
         [] node.k = "Call" -> CallEval(node, path, s)
         [] node.k = "Assign" -> AssignEval(node, path, s)
         [] node.k = "Getattr" -> GetattrEval(node, path, s)
         [] node.k = "Print" -> PrintEval(node, path, s)
         [] OTHER -> Raise(s, path, "AttributeError")

\* faulty variant: the loop walks the list from its end
ProgramEvalStepReversed(ss, i, st) == Eval(ss[Len(ss) + 1 - i], <<Len(ss) + 1 - i>>, st)

\* faulty variant: the loop catches the exception of a statement and goes on
ProgramEvalStepSwallow(ss, i, st) == [Eval(ss[i], <<i>>, st) EXCEPT !.fault = "none"]

\* one iteration of the loop of Program.eval: the i-th statement
ProgramEvalStep(ss, i, st) == Eval(ss[i], <<i>>, st)

-----------------------------------------------------------------------------
(* The programs of the model, as parse trees.                              *)

SeqsUpTo(S, n) == UNION { [1..k -> S] : k \in 0..n }

NumTok(n) == Token("NUMBER", ToString(n))
StrTok(x) == Token("STRING", Quoted(x))
V(name) == Token("VAR", name)
ObjOf(base, suffixes) == Rule("obj", <<base>> \o suffixes)
Args(as) == Rule("params", as)
AssignTo(left, right) == Rule("assignment", <<left, right>>)

\* a pool of expressions, one for each case of interest
PoolExprs ==
    { NumTok(1), V("x"), V("u"),
      ObjOf(V("o"), <<V("a")>>),
      ObjOf(V("o"), <<V("b")>>),
      ObjOf(StrTok("hi"), <<V("upper")>>),
      AssignTo(ObjOf(V("o"), <<V("a")>>), NumTok(2)),
      AssignTo(ObjOf(V("o"), <<V("b")>>), V("x")),
      AssignTo(ObjOf(V("f"), <<V("a")>>), NumTok(1)),
      AssignTo(V("x"), NumTok(0)),
      AssignTo(V("u"), NumTok(0)),
      ObjOf(V("f"), <<Args(<<NumTok(1)>>)>>),
      ObjOf(V("g"), <<Args(<<NumTok(1)>>)>>),
      ObjOf(V("f"), <<V("a")>>),
      Rule("sub", <<V("x"), NumTok(1)>>) }

PoolStmts == PoolExprs \cup { Rule("print_cmd", <<e>>) : e \in PoolExprs }

\* binary operations over operands that return, fault, or differ in type
Operands ==
    { NumTok(n) : n \in 0..MaxNum }
    \cup { V("x"), V("u"), StrTok("yo"), Token("BOOL", "true"), Token("NIL", "nil"),
           ObjOf(V("h"), <<Args(<<>>)>>) }
BinFamily ==
    { Rule(op, <<l, r>>) : op \in {"sub", "mul", "lt", "ge"}, l \in Operands, r \in Operands }

\* calls: each callee with each argument list
Callees == { V("f"), V("g"), V("h"), V("x"), V("u"), ObjOf(V("o"), <<V("greet")>>) }
ArgPool == { NumTok(1), NumTok(MaxNum), V("x"), V("u"), ObjOf(V("f"), <<Args(<<NumTok(0)>>)>>) }
CallFamily ==
    { ObjOf(c, <<Args(as)>>) : c \in Callees, as \in SeqsUpTo(ArgPool, MaxArgs) }

\* attribute and call chains
Suffixes == { V("a"), V("greet"), V("upper"), Args(<<>>), Args(<<NumTok(1)>>),
              Args(<<NumTok(1), V("x")>>) }
ObjFamily ==
    { ObjOf(b, ss) : b \in {V("o"), V("f"), StrTok("hi")}, ss \in SeqsUpTo(Suffixes, MaxSuffixes) }

\* attribute assignments: each kind of target, each attribute, each kind of value
Targets == { V("o"), V("f"), V("x"), V("u"), StrTok("hi"), Token("NIL", "nil"),
             Token("BOOL", "false"), ObjOf(V("o"), <<V("greet")>>) }
AssignedValues == { NumTok(MaxNum), V("u"), StrTok("yo"),
                    AssignTo(ObjOf(V("o"), <<V("b")>>), NumTok(1)) }
AssignFamily ==
    { AssignTo(ObjOf(t, <<V(a)>>), v) : t \in Targets, a \in {"a", "b", "greet"},
                                        v \in AssignedValues }
\* a statement that is one rule application with an absent right-hand side
BareAssignments == { Rule("assignment", <<e>>) : e \in {V("x"), ObjOf(V("o"), <<V("a")>>)} }

ProgramTrees ==
    { Rule("program", ss) : ss \in SeqsUpTo(PoolStmts, MaxStmts) }
    \cup { Rule("program", <<e>>) :
             e \in BinFamily \cup CallFamily \cup ObjFamily \cup AssignFamily \cup BareAssignments }
    \cup { Rule("program", <<Rule("print_cmd", <<e>>), Rule("print_cmd", <<NumTok(1)>>)>>) :
             e \in BinFamily }

-----------------------------------------------------------------------------
(* The run: the transformer builds the Program, Program.eval runs it.      *)

Init ==
    /\ tree \in ProgramTrees
    /\ phase = "parse"
    /\ stmts = <<>>
    /\ pc = 1
    /\ ctx \in InitialCtxs
    /\ ctx0 = ctx
    /\ heap = InitialHeap
    /\ out = <<>>
    /\ fault = "none"
    /\ trace = <<>>

\* LoxTransformer().transform(tree): the Program the evaluator is given
TransformTree ==
    /\ phase = "parse"
    /\ stmts' = Transform(tree).stmts
    /\ phase' = "eval"
    /\ UNCHANGED <<tree, pc, ctx, ctx0, heap, out, fault, trace>>

\* Program.eval, one iteration of `for stmt in self.stmts: stmt.eval(ctx)`;
\* an exception raised by the statement leaves the loop and Program.eval
EvalStmt ==
    /\ phase = "eval"
    /\ pc <= Len(stmts)
    /\ LET st == [ctx |-> ctx, heap |-> heap, out |-> out, trace |-> trace,
                  fault |-> "none", val |-> Nil]
           r == ProgramEvalStep(stmts, pc, st)
       IN /\ ctx' = r.ctx
          /\ heap' = r.heap
          /\ out' = r.out
          /\ trace' = r.trace
          /\ fault' = r.fault
          /\ IF r.fault = "none"
             THEN pc' = pc + 1 /\ phase' = "eval"
             ELSE pc' = pc /\ phase' = "aborted"
    /\ UNCHANGED <<tree, stmts, ctx0>>

\* Program.eval, the loop exhausted: it returns
Finish ==
    /\ phase = "eval"
    /\ pc > Len(stmts)
    /\ phase' = "done"
    /\ UNCHANGED <<tree, stmts, pc, ctx, ctx0, heap, out, fault, trace>>

Next == TransformTree \/ EvalStmt \/ Finish

Spec == Init /\ [][Next]_vars

-----------------------------------------------------------------------------
(* Reading the history.                                                    *)

\* the positions in the history of the events of one kind at one path
Events(ev, path) == { j \in DOMAIN trace : trace[j].ev = ev /\ trace[j].path = path }
Happened(ev, path) == Events(ev, path) # {}
Pos(ev, path) == CHOOSE j \in Events(ev, path) : TRUE
ReturnedVal(path) == trace[Pos("return", path)].vals[1]

\* the child of a node at a position: the fields in declaration order,
\* the parameters of a Call after its func
ChildOf(node, i) ==
    CASE node.k = "BinOp" -> IF i = 1 THEN node.left ELSE node.right
      [] node.k = "Call" -> IF i = 1 THEN node.func ELSE node.params.items[i - 1]
      [] node.k = "Assign" -> IF i = 1 THEN node.obj ELSE node.value
      [] node.k = "Getattr" -> node.obj
      [] node.k = "Print" -> node.expr
RECURSIVE NodeFrom(_, _)
NodeFrom(node, path) ==
    IF path = <<>> THEN node ELSE NodeFrom(ChildOf(node, Head(path)), Tail(path))
NodeAt(path) == NodeFrom(stmts[Head(path)], Tail(path))

\* the positions of the events that enter a node of one class
Entered(kind) == { j \in DOMAIN trace : trace[j].ev = "enter" /\ trace[j].info = kind }

-----------------------------------------------------------------------------
(* Program.eval and Print.eval.                                            *)

\* the top-level statements entered so far, in the order they were entered
StmtsEntered == SelectSeq(trace, LAMBDA e : e.ev = "enter" /\ Len(e.path) = 1)
\* the indices of the Print statements that ran to their end, in list order
PrintsDone ==
    SelectSeq([i \in 1..Len(stmts) |-> i],
              LAMBDA i : stmts[i].k = "Print" /\ Happened("return", <<i>>))

\* C1: Program.eval executes the top-level statements in list order, each
\* exactly once, and the lines written are the values of the Print
\* statements executed, in execution order: each line is written while its
\* statement runs, none twice, none after a later statement started.
C1_InOrderOnce ==
    LET n == Len(StmtsEntered)
    IN /\ \A j \in 1..n : StmtsEntered[j].path = <<j>> /\ StmtsEntered[j].info = stmts[j].k
       /\ n = (IF phase = "aborted" THEN pc ELSE pc - 1)
       /\ phase = "done" => n = Len(stmts)
       /\ Len(out) = Len(PrintsDone)
       /\ \A m \in 1..Len(out) :
            LET i == PrintsDone[m]
            IN /\ out[m] = PyStr(ReturnedVal(<<i, 1>>))
               /\ Cardinality(Events("print", <<i>>)) = 1
               /\ Pos("return", <<i, 1>>) < Pos("print", <<i>>)
               /\ Pos("print", <<i>>) < Pos("return", <<i>>)

\* a finished run of two Print statements that wrote two different lines
C1_Witness ==
    /\ phase = "done"
    /\ Len(stmts) = 2
    /\ stmts[1].k = "Print" /\ stmts[2].k = "Print"
    /\ Len(out) = 2
    /\ out[1] # out[2]

\* C2: a fault propagates out of Program.eval.  Nothing is evaluated after
\* an exception is raised: the raise is the last event of the run, the run
\* is aborted at the faulting statement with that exception, the faulting
\* statement wrote nothing, and the output holds exactly the lines of the
\* Print statements before it.
C2_FaultPropagates ==
    /\ \A j \in DOMAIN trace :
         trace[j].ev = "raise" =>
            /\ j = Len(trace)
            /\ fault = trace[j].info
            /\ phase = "aborted"
            /\ pc = trace[j].path[1]
            /\ ~Happened("print", <<pc>>)
    /\ fault # "none" <=> phase = "aborted"
    /\ phase = "aborted" =>
         /\ trace # <<>> /\ trace[Len(trace)].ev = "raise"
         /\ Len(out) = Cardinality({ i \in 1..(pc - 1) : stmts[i].k = "Print" })

\* a Print statement faulted after an earlier Print statement had written
C2_Witness ==
    /\ phase = "aborted"
    /\ pc = 2
    /\ stmts[1].k = "Print" /\ stmts[2].k = "Print"
    /\ Len(out) = 1
    /\ Len(trace[Len(trace)].path) > 1

-----------------------------------------------------------------------------
(* Var.eval.                                                               *)

Defines(chain, name) == \E i \in DOMAIN chain : name \in DOMAIN chain[i]
Nearest(chain, name) ==
    CHOOSE i \in DOMAIN chain :
        /\ name \in DOMAIN chain[i]
        /\ \A k \in 1..(i - 1) : name \notin DOMAIN chain[k]

\* C3: Var(name).eval returns the value the nearest defining scope binds to
\* name, and raises NameError (UndefinedName) when no scope defines it; the
\* bindings of the environment are unchanged either way.
C3_VarReadsBinding ==
    /\ ctx = ctx0
    /\ \A j \in Entered("Var") :
         LET p == trace[j].path
             name == NodeAt(p).name
         IN /\ j < Len(trace)
            /\ trace[j + 1].path = p
            /\ IF Defines(ctx0, name)
               THEN /\ trace[j + 1].ev = "return"
                    /\ trace[j + 1].vals = <<ctx0[Nearest(ctx0, name)][name]>>
               ELSE /\ trace[j + 1].ev = "raise"
                    /\ trace[j + 1].info = "NameError"

\* a run under a two-scope chain that read the shadowed x and then faulted
\* on the unbound u
C3_Witness ==
    /\ Len(ctx0) = 2
    /\ fault = "NameError"
    /\ \E j \in Entered("Var") : NodeAt(trace[j].path).name = "x" /\ trace[j + 1].ev = "return"
    /\ \E j \in Entered("Var") : NodeAt(trace[j].path).name = "u"

-----------------------------------------------------------------------------
(* Assignments and attribute access.                                       *)

\* the top-level statements parsed as `name = value` and already executed
VarAssignments ==
    { i \in DOMAIN tree.ch :
        /\ tree.ch[i].rule = "assignment"
        /\ Len(tree.ch[i].ch) = 2
        /\ tree.ch[i].ch[1].rule = "VAR"
        /\ Happened("enter", <<i>>) }

\* C4: an executed assignment `name = value` faults with NameError
\* (UndefinedName) and leaves the bindings alone when no scope defines name,
\* and otherwise completes and overwrites the binding of the nearest
\* defining scope.
C4_VarAssignment ==
    \A i \in VarAssignments :
        LET name == tree.ch[i].ch[1].tok
            value == Transform(tree.ch[i].ch[2]).value
        IN IF Defines(ctx0, name)
           THEN /\ Happened("return", <<i>>)
                /\ ctx[Nearest(ctx0, name)][name] = value
           ELSE /\ fault = "NameError"
                /\ ctx = ctx0

\* C5: Getattr(obj, name).eval returns only when obj evaluated to an
\* Instance, and then the field or the bound method; an Instance with
\* neither faults, and every other value faults.
C5_GetattrOnInstancesOnly ==
    \A j \in Entered("Getattr") :
        LET p == trace[j].path
            attr == NodeAt(p).attr
        IN Happened("return", p \o <<1>>) =>
             LET ov == ReturnedVal(p \o <<1>>)
             IN IF ov.t = "inst"
                THEN IF attr \in DOMAIN heap[ov.v].fields \/ FindMethod(heap[ov.v].cls, attr)
                     THEN Happened("return", p) =>
                             \/ attr \in DOMAIN heap[ov.v].fields
                             \/ ReturnedVal(p) = BoundMethod(ov.v, attr)
                     ELSE Happened("raise", p)
                ELSE Happened("raise", p) /\ ~Happened("return", p)

\* C6: Assign(obj, attr, value).eval evaluates value, then obj; an obj that
\* is not an Instance faults without a write; an Instance gets field attr
\* written with the value, and the value is returned.
C6_AssignWritesInstanceField ==
    \A j \in Entered("Assign") :
        LET p == trace[j].path
            vp == p \o <<2>>
            op == p \o <<1>>
        IN /\ trace[j + 1].ev = "enter" /\ trace[j + 1].path = vp
           /\ Happened("enter", op) =>
                Happened("return", vp) /\ Pos("return", vp) < Pos("enter", op)
           /\ Happened("return", op) =>
                IF ReturnedVal(op).t = "inst"
                THEN /\ Happened("setattr", p)
                     /\ trace[Pos("setattr", p)].vals = <<ReturnedVal(op), ReturnedVal(vp)>>
                     /\ trace[Pos("setattr", p)].info = NodeAt(p).attr
                     /\ Happened("return", p)
                     /\ ReturnedVal(p) = ReturnedVal(vp)
                ELSE /\ ~Happened("setattr", p)
                     /\ Happened("raise", p)

-----------------------------------------------------------------------------
(* Call.eval.                                                              *)

\* C7: Call.eval evaluates the callee first, then each argument once, left
\* to right, each after the one before it returned; only after the last
\* argument returned is the callee invoked, once, with the callee's value
\* and the argument values in positional order; the value the call returns
\* is the value the callee returned.
C7_CallOrder ==
    \A j \in Entered("Call") :
        LET p == trace[j].path
            n == Len(NodeAt(p).params.items)
            sub(k) == p \o <<k>>
        IN /\ trace[j + 1].ev = "enter" /\ trace[j + 1].path = sub(1)
           /\ \A k \in 1..(n + 1) : Cardinality(Events("enter", sub(k))) <= 1
           /\ \A k \in 2..(n + 1) :
                Happened("enter", sub(k)) =>
                   /\ Happened("return", sub(k - 1))
                   /\ Pos("return", sub(k - 1)) < Pos("enter", sub(k))
           /\ \A k \in 1..n :
                Happened("return", sub(k)) => Happened("enter", sub(k + 1))
           /\ Cardinality(Events("invoke", p)) = (IF Happened("return", sub(n + 1)) THEN 1 ELSE 0)
           /\ Happened("invoke", p) =>
                /\ Pos("return", sub(n + 1)) < Pos("invoke", p)
                /\ trace[Pos("invoke", p)].vals = [k \in 1..(n + 1) |-> ReturnedVal(sub(k))]
           /\ Cardinality(Events("body", p)) <= 1
           /\ Happened("body", p) =>
                /\ Pos("invoke", p) < Pos("body", p)
                /\ trace[Pos("body", p)].vals = [k \in 1..n |-> ReturnedVal(sub(k + 1))]
           /\ Happened("return", p) =>
                /\ Happened("body", p)
                /\ ReturnedVal(sub(1)).t = "fn" =>
                     ReturnedVal(p) = FnResult(ReturnedVal(sub(1)).v, trace[Pos("body", p)].vals)

\* the two-parameter function was called with two different values and returned
C7_Witness ==
    \E j \in DOMAIN trace :
        /\ trace[j].ev = "body"
        /\ Len(trace[j].vals) = 2
        /\ trace[j].vals[1] # trace[j].vals[2]
        /\ Happened("return", trace[j].path)

\* the number of parameters of a callable value, -1 for a value that is not callable
ArityOf(fv) ==
    CASE fv.t = "fn" -> FnArity(fv.v)
      [] fv.t = "method" -> MethodArity(fv.s)
      [] fv.t = "str.upper" -> 0
      [] OTHER -> -1

\* C8: a call whose argument count differs from the arity of its callee
\* raises TypeError (ArityMismatch) at once and aborts the run: the body of
\* the callee does not run, and a body that runs was given exactly as many
\* values as it has parameters, the ones of the call.
C8_ArityMismatchFaults ==
    \A j \in DOMAIN trace :
        trace[j].ev = "invoke" =>
            LET p == trace[j].path
                fv == trace[j].vals[1]
                args == Tail(trace[j].vals)
            IN IF ArityOf(fv) # Len(args)
               THEN /\ ~Happened("body", p)
                    /\ ~Happened("return", p)
                    /\ j < Len(trace)
                    /\ trace[j + 1] = Ev("raise", p, "TypeError", <<>>)
                    /\ fault = "TypeError"
               ELSE /\ Happened("body", p)
                    /\ trace[Pos("body", p)].vals = args

\* a host function called with some arguments, but fewer than it has
\* parameters, faulted
C8_Witness ==
    /\ fault = "TypeError"
    /\ \E j \in DOMAIN trace :
         /\ trace[j].ev = "invoke"
         /\ trace[j].vals[1].t = "fn"
         /\ Len(trace[j].vals) - 1 < FnArity(trace[j].vals[1].v)
         /\ Len(trace[j].vals) - 1 > 0

-----------------------------------------------------------------------------
(* BinOp.eval.                                                             *)

\* C9: BinOp.eval evaluates left, then right, each once; right is evaluated
\* whenever left returned, whatever its value, and never when left faulted;
\* op is applied once, after both returned, to (left value, right value),
\* and the value of the node is the result of op.
C9_BinOpOrder ==
    \A j \in Entered("BinOp") :
        LET p == trace[j].path
            lp == p \o <<1>>
            rp == p \o <<2>>
        IN /\ trace[j + 1].ev = "enter" /\ trace[j + 1].path = lp
           /\ Cardinality(Events("enter", lp)) = 1
           /\ Cardinality(Events("enter", rp)) = (IF Happened("return", lp) THEN 1 ELSE 0)
           /\ Happened("enter", rp) => Pos("return", lp) < Pos("enter", rp)
           /\ Cardinality(Events("apply", p)) = (IF Happened("return", rp) THEN 1 ELSE 0)
           /\ Happened("apply", p) =>
                LET a == trace[Pos("apply", p)]
                    res == ApplyOp(NodeAt(p).op, ReturnedVal(lp), ReturnedVal(rp))
                IN /\ Pos("return", rp) < Pos("apply", p)
                   /\ a.vals = <<ReturnedVal(lp), ReturnedVal(rp)>>
                   /\ a.info = NodeAt(p).op
                   /\ IF res.fault = "none"
                      THEN Happened("return", p) /\ ReturnedVal(p) = res.val
                      ELSE Happened("raise", p) /\ fault = res.fault

\* a subtraction of two different numbers returned, and a multiplication
\* whose left operand is zero evaluated its right operand
C9_Witness ==
    \E j \in DOMAIN trace :
        /\ trace[j].ev = "apply"
        /\ trace[j].info \in {"sub", "mul"}
        /\ trace[j].vals[1] = Num(0)
        /\ trace[j].vals[2] = Num(MaxNum)
        /\ Happened("return", trace[j].path)

-----------------------------------------------------------------------------
(* LoxTransformer.obj.                                                     *)

\* the expression a Getattr or a Call node wraps
Wrapped(node) == IF node.k = "Getattr" THEN node.obj ELSE node.func
RECURSIVE Peel(_, _)
Peel(node, m) == IF m = 0 THEN node ELSE Peel(Wrapped(node), m - 1)

\* the top-level statements parsed by the obj rule
ObjStmts == { i \in DOMAIN tree.ch : tree.ch[i].rule = "obj" }

\* C10: LoxTransformer.obj folds its suffixes left to right over the base:
\* the k-th of n suffixes is the wrapper n - k levels below the top, a
\* Getattr of its name for an attribute suffix and a Call with its
\* arguments for an argument list, and under the n wrappers is the base.
C10_ObjFoldsSuffixes ==
    phase # "parse" =>
      \A i \in ObjStmts :
        LET base == tree.ch[i].ch[1]
            sfx == Tail(tree.ch[i].ch)
            n == Len(sfx)
        IN /\ Peel(stmts[i], n) = Transform(base)
           /\ \A k \in 1..n :
                LET layer == Peel(stmts[i], n - k)
                IN IF sfx[k].rule = "VAR"
                   THEN layer.k = "Getattr" /\ layer.attr = sfx[k].tok
                   ELSE /\ layer.k = "Call"
                        /\ layer.params.k = "list"
                        /\ layer.params.items =
                              [a \in 1..Len(sfx[k].ch) |-> Transform(sfx[k].ch[a])]

\* a chain of an attribute suffix followed by an argument list was built
C10_Witness ==
    /\ phase # "parse"
    /\ \E i \in ObjStmts :
         /\ Len(tree.ch[i].ch) = 3
         /\ tree.ch[i].ch[2].rule = "VAR"
         /\ tree.ch[i].ch[3].rule = "params"
         /\ Len(tree.ch[i].ch[3].ch) = 2
         /\ stmts[i].k = "Call"
         /\ stmts[i].func.k = "Getattr"

====
